---- MODULE Spec2Model ----
(***************************************************************************)
(* The survey application of src/app.py: a Streamlit script that is        *)
(* re-executed top to bottom on every interaction of one browser session.  *)
(* One action of this module is one interaction together with the script   *)
(* run it triggers, the run that st.rerun() asks for included.             *)
(*                                                                         *)
(* Representation of Python values: a scalar is its str() text ("18" for   *)
(* the int 18), None is the token None, a dict with string keys is a       *)
(* function on strings, True/False are TRUE/FALSE.                         *)
(***************************************************************************)
EXTENDS Integers, Sequences, FiniteSets, TLC

VARIABLES
    session_state,  \* st.session_state: the keys init_state creates, plus step_changed
    widgets,        \* front-end value of every widget of the current step
    remote,         \* the dataset file HF_DATASET_PATH of HF_DATASET_REPO
    now,            \* the last reading of datetime.utcnow()
    crashed,        \* the last script run ended in an uncaught exception
    ui,             \* what the last script run displayed
    last,           \* the last interaction: what was pressed, what the services answered
    answers,        \* history: per question, the value the participant last set
    visited,        \* history: the steps in the order they were first run
    edits,          \* number of answers changed so far
    sessions        \* the browser sessions submitting side by side (SpecRace)

vars == <<session_state, widgets, remote, now, crashed, ui, last, answers, visited, edits,
          sessions>>

-----------------------------------------------------------------------------
(* Bounds of the model *)

MaxEdits == 1     \* answer changes explored per session
MaxRows == 2      \* rows the remote dataset may grow to
MaxClock == 1     \* latest clock reading

-----------------------------------------------------------------------------
(* Python values *)

None == "None"

Range(s) == {s[i] : i \in 1..Len(s)}

\* f"{prefix}{i}" for i in range(1, n + 1)
Keys(prefix, n) == {prefix \o ToString(i) : i \in 1..n}

\* datetime.isoformat() of the clock reading t
isoformat(t) == "T" \o ToString(t)

\* str(uuid.uuid4()) of this session, and of an earlier participant
ThisParticipant == "p1"
OtherParticipant == "p0"

-----------------------------------------------------------------------------
(* The survey flow *)

steps == <<"consent", "demographics", "baseline", "session_emp", "session_neu", "open", "review">>

\* steps.index(s), 0-based as in Python
StepIndex(s) == (CHOOSE i \in 1..Len(steps) : steps[i] = s) - 1

IsSession(s) == s \in {"session_emp", "session_neu"}

OpenKeys == {"open_emp", "open_neu", "open_compare", "open_pref", "open_empathy",
             "open_trust", "open_triggers", "open_improve", "open_more_1", "open_more_2"}

NoKeys == [k \in {} |-> None]

\* no session other than the one followed is looked at
NoSessions == [p \in {} |-> None]

\* the defaults dict of init_state
defaults(pid, t) ==
    [consented |-> FALSE,
     step |-> "consent",
     participant_id |-> pid,
     start_ts |-> isoformat(t),
     age |-> None,
     gender |-> None,
     gender_other |-> "",
     education |-> None,
     voice_exp |-> None,
     used_assistants |-> None,
     tech_comfort |-> None,
     gad |-> [q \in Keys("q", 7) |-> None],
     gad_impact |-> None,
     panas |-> [q \in Keys("q", 10) |-> None],
     single_mood |-> None,
     emp |-> [q \in Keys("q", 8) |-> None],
     emp_state_anxiety |-> None,
     emp_post |-> [q \in Keys("q", 7) |-> None],
     neu |-> [q \in Keys("q", 8) |-> None],
     neu_state_anxiety |-> None,
     neu_post |-> [q \in Keys("q", 7) |-> None],
     open_emp |-> "",
     open_neu |-> "",
     open_compare |-> "",
     open_pref |-> "",
     open_empathy |-> "",
     open_trust |-> "",
     open_triggers |-> "",
     open_improve |-> "",
     open_more_1 |-> "",
     open_more_2 |-> ""]

DefaultKeys == DOMAIN defaults("", 0)

\* init_state without the `if k not in st.session_state` test
init_state_assigning(ss, pid, t) ==
    LET d == defaults(pid, t)
    IN [k \in DOMAIN d \cup DOMAIN ss |-> IF k \in DOMAIN d THEN d[k] ELSE ss[k]]

\* init_state: a key already in the session keeps its value
init_state(ss, pid, t) ==
    IF DefaultKeys \subseteq DOMAIN ss THEN ss
    ELSE LET d == defaults(pid, t)
         IN [k \in DOMAIN d \cup DOMAIN ss |-> IF k \in DOMAIN ss THEN ss[k] ELSE d[k]]

\* st.session_state.get("step_changed", False)
StepChanged(ss) == IF "step_changed" \in DOMAIN ss THEN ss["step_changed"] ELSE FALSE

\* ss[k] = v, creating the key when it is new
SetKey(ss, k, v) == [x \in DOMAIN ss \cup {k} |-> IF x = k THEN v ELSE ss[x]]

\* scroll_to_top without the assignment of False to step_changed
scroll_to_top_keeping(ss) == ss

scroll_to_top(ss) ==
    IF StepChanged(ss) THEN SetKey(ss, "step_changed", FALSE) ELSE ss

\* show_progress with the index taken as the position: the + 1 left out
show_progress_zero_based(ss) ==
    LET current_index == StepIndex(ss.step)
    IN <<current_index, Len(steps)>>

\* the fraction show_progress hands to st.progress, as <<numerator, denominator>>
show_progress(ss) ==
    LET current_index == StepIndex(ss.step)
    IN <<current_index + 1, Len(steps)>>

-----------------------------------------------------------------------------
(* The widgets of each step.  A widget without key= is named after the     *)
(* session key its value is assigned to; a keyed widget has its key.       *)

GadWidgets == Keys("gad_q", 7)
PanasWidgets == Keys("panas_q", 10)

\* keys of empathetic_questions and of neutral_questions, in order
empathetic_questions == <<"Q11", "Q12", "Q13", "Q14", "Q15", "Q16", "Q17", "Q18">>
neutral_questions == <<"Q20", "Q21", "Q22", "Q23", "Q24", "Q25", "Q26", "Q27">>

five_scale == <<"1 = Strongly Disagree", "2", "3", "4", "5 = Strongly Agree">>

OtherGender == "Non-binary/Other (specify)"

\* text the participant may type into a text_input / text_area
Texts == <<"", "NA", "calm", "uneasy">>

\* the options of widget w, in the order the source lists them (for a free
\* input: sample inputs, the widget's initial value first)
Options(w) ==
    CASE w = "consent" -> <<FALSE, TRUE>>
      [] w = "age" -> <<"18", "29", "120", "64">>
      [] w = "gender" -> <<"Female", "Male", OtherGender, "Prefer not to say">>
      [] w = "education" -> <<"High school or less", "Some college/Associate's",
                              "Bachelor's degree", "Postgraduate degree">>
      [] w \in {"voice_exp", "used_assistants"} -> <<"Yes", "No">>
      [] w = "tech_comfort" -> <<"Not at all", "Slightly", "Moderately", "Very", "Extremely">>
      [] w \in GadWidgets -> <<"1", "2", "3", "4">>
      [] w = "gad_impact" -> <<"Not difficult", "Somewhat", "Very", "Extremely">>
      [] w \in PanasWidgets \cup {"single_mood"} -> <<"1", "2", "3", "4", "5">>
      [] w \in Range(empathetic_questions) \cup Range(neutral_questions) -> five_scale
      [] w \in {"emp_state_anxiety", "neu_state_anxiety"} -> <<"1", "2", "3", "4", "5">>
      [] OTHER -> Texts

\* what a widget returns before the participant touches it: the first option
\* (index 0 of a radio/selectbox, min_value of the number_input, unchecked, "")
Default(w) == Options(w)[1]

\* the values the model lets the participant give widget w: its initial value
\* and one other (for the gender, the one that brings up "Please specify:")
Inputs(w) ==
    IF w = "gender" THEN {Default(w), OtherGender} ELSE {Options(w)[1], Options(w)[2]}

\* the widgets the block of step s creates when gender_choice is g
WidgetsOf(s, g) ==
    CASE s = "consent" -> {"consent"}
      [] s = "demographics" ->
            {"age", "gender", "education", "voice_exp", "used_assistants", "tech_comfort"}
            \cup (IF g = OtherGender THEN {"gender_other"} ELSE {})
      [] s = "baseline" -> GadWidgets \cup {"gad_impact"} \cup PanasWidgets \cup {"single_mood"}
      [] s = "session_emp" -> Range(empathetic_questions) \cup {"emp_state_anxiety"}
      [] s = "session_neu" -> Range(neutral_questions) \cup {"neu_state_anxiety"}
      [] s = "open" -> OpenKeys
      [] OTHER -> {}

\* Streamlit keeps a widget's value only while the widget is rendered: a run
\* that completes drops the values of the widgets it did not create, and a
\* widget created anew starts from its default.
Rendered(s, wd) ==
    LET g == IF "gender" \in DOMAIN wd THEN wd["gender"] ELSE Default("gender")
        ws == WidgetsOf(s, g)
    IN [w \in ws |-> IF w \in DOMAIN wd THEN wd[w] ELSE Default(w)]

QuestionWidgets ==
    UNION {WidgetsOf(s, OtherGender) : s \in Range(steps) \ {"consent"}}

\* the widgets the model lets the participant change: every widget that has a
\* statement of its own, the first and the last widget of each loop, and the
\* first and the last of the ten text areas
Changeable ==
    {"consent", "age", "gender", "gender_other", "education", "voice_exp",
     "used_assistants", "tech_comfort",
     "gad_q1", "gad_q7", "gad_impact", "panas_q1", "panas_q10", "single_mood",
     "Q11", "Q18", "emp_state_anxiety", "Q20", "Q27", "neu_state_anxiety",
     "open_emp", "open_more_2"}

-----------------------------------------------------------------------------
(* The assignments each step's block makes from its widgets *)

demographics_block(ss, wd) ==
    [ss EXCEPT !.age = wd["age"],
               !.gender = wd["gender"],
               !.gender_other = IF wd["gender"] = OtherGender THEN wd["gender_other"] ELSE @,
               !.education = wd["education"],
               !.voice_exp = wd["voice_exp"],
               !.used_assistants = wd["used_assistants"],
               !.tech_comfort = wd["tech_comfort"]]

baseline_block(ss, wd) ==
    [ss EXCEPT !.gad = [q \in DOMAIN @ |-> wd["gad_" \o q]],
               !.gad_impact = wd["gad_impact"],
               !.panas = [q \in DOMAIN @ |-> wd["panas_" \o q]],
               !.single_mood = wd["single_mood"]]

\* the block of session_emp if it assigned its slider to the field of the
\* neutral session as well
session_emp_block_shared(ss, wd) ==
    [ss EXCEPT !.emp_state_anxiety = wd["emp_state_anxiety"],
               !.neu_state_anxiety = wd["emp_state_anxiety"]]

\* the radios of the items are keyed Q11..Q18: their values stay in the
\* widgets, st.session_state["emp"] is not assigned
session_emp_block(ss, wd) ==
    [ss EXCEPT !.emp_state_anxiety = wd["emp_state_anxiety"]]

\* likewise Q20..Q27 and st.session_state["neu"]
session_neu_block(ss, wd) ==
    [ss EXCEPT !.neu_state_anxiety = wd["neu_state_anxiety"]]

open_block(ss, wd) ==
    [k \in DOMAIN ss |-> IF k \in OpenKeys THEN wd[k] ELSE ss[k]]

StepBlock(ss, wd) ==
    CASE ss.step = "demographics" -> demographics_block(ss, wd)
      [] ss.step = "baseline" -> baseline_block(ss, wd)
      [] ss.step = "session_emp" -> session_emp_block(ss, wd)
      [] ss.step = "session_neu" -> session_neu_block(ss, wd)
      [] ss.step = "open" -> open_block(ss, wd)
      [] OTHER -> ss

\* the buttons if the review block called navigation_buttons(prev_step="open")
Buttons_review_back(s) ==
    CASE s = "consent" -> {"Continue"}
      [] s = "demographics" -> {"back_consent", "next_baseline"}
      [] s = "baseline" -> {"back_demographics", "next_session_emp"}
      [] s = "session_emp" -> {"emp_play_btn", "back_baseline", "next_session_neu"}
      [] s = "session_neu" -> {"neu_play_btn", "back_session_emp", "next_open"}
      [] s = "open" -> {"back_session_neu", "next_review"}
      [] OTHER -> {"back_open", "Submit"}

\* the buttons the block of step s creates
Buttons(s) ==
    CASE s = "consent" -> {"Continue"}
      [] s = "demographics" -> {"back_consent", "next_baseline"}
      [] s = "baseline" -> {"back_demographics", "next_session_emp"}
      [] s = "session_emp" -> {"emp_play_btn", "back_baseline", "next_session_neu"}
      [] s = "session_neu" -> {"neu_play_btn", "back_session_emp", "next_open"}
      [] s = "open" -> {"back_session_neu", "next_review"}
      [] OTHER -> {"Submit"}

\* the prev_step / next_step arguments of the step's navigation_buttons call
\* prev_key arguments that lead back to the start
prev_step_restarting(s) ==
    CASE s = "demographics" -> "consent"
      [] s = "baseline" -> "consent"
      [] s = "session_emp" -> "consent"
      [] s = "session_neu" -> "consent"
      [] s = "open" -> "consent"

prev_step(s) ==
    CASE s = "demographics" -> "consent"
      [] s = "baseline" -> "demographics"
      [] s = "session_emp" -> "baseline"
      [] s = "session_neu" -> "session_emp"
      [] s = "open" -> "session_neu"

\* next_key arguments that pass over session_emp
next_step_skipping(s) ==
    CASE s = "demographics" -> "baseline"
      [] s = "baseline" -> "session_neu"
      [] s = "session_emp" -> "session_neu"
      [] s = "session_neu" -> "open"
      [] s = "open" -> "review"

next_step(s) ==
    CASE s = "demographics" -> "baseline"
      [] s = "baseline" -> "session_emp"
      [] s = "session_emp" -> "session_neu"
      [] s = "session_neu" -> "open"
      [] s = "open" -> "review"

HasNavigation(s) == s \in {"demographics", "baseline", "session_emp", "session_neu", "open"}

\* navigation_buttons if going back to the consent step withdrew the consent
navigation_buttons_resetting(ss, target) ==
    SetKey([ss EXCEPT !.step = target, !.consented = (target # "consent")],
           "step_changed", TRUE)

\* the two assignments of navigation_buttons when the button for `target` is pressed
navigation_buttons(ss, target) ==
    SetKey([ss EXCEPT !.step = target], "step_changed", TRUE)

-----------------------------------------------------------------------------
(* The record built on Submit *)

\* the loops with the PANAS loop one item short: range(1, 10)
ScaleColumn_short ==
    LET Loop(group, n) == [c \in Keys(group \o "_q", n) |->
                              <<group, CHOOSE q \in Keys("q", n) : c = group \o "_" \o q>>]
    IN Loop("gad", 7) @@ Loop("panas", 9) @@ Loop("emp", 8) @@ Loop("emp_post", 7)
       @@ Loop("neu", 8) @@ Loop("neu_post", 7)

\* the columns the six loops of the review block add: for i in range(1, n + 1),
\* record[f"{group}_q{i}"] = st.session_state[group][f"q{i}"]
ScaleColumn ==
    LET Loop(group, n) == [c \in Keys(group \o "_q", n) |->
                              <<group, CHOOSE q \in Keys("q", n) : c = group \o "_" \o q>>]
    IN Loop("gad", 7) @@ Loop("panas", 10) @@ Loop("emp", 8) @@ Loop("emp_post", 7)
       @@ Loop("neu", 8) @@ Loop("neu_post", 7)

\* the record with its two timestamps exchanged
record_swapped(ss, submit_ts) ==
    LET base == [participant_id |-> ss.participant_id,
                 start_ts_utc |-> isoformat(submit_ts),
                 submit_ts_utc |-> ss.start_ts,
                 age |-> ss.age,
                 gender |-> ss.gender,
                 gender_other |-> ss.gender_other,
                 education |-> ss.education,
                 voice_exp |-> ss.voice_exp,
                 used_assistants |-> ss.used_assistants,
                 tech_comfort |-> ss.tech_comfort,
                 single_mood |-> ss.single_mood,
                 gad_impact |-> ss.gad_impact,
                 emp_state_anxiety |-> ss.emp_state_anxiety,
                 neu_state_anxiety |-> ss.neu_state_anxiety]
    IN base
       @@ [c \in DOMAIN ScaleColumn |-> ss[ScaleColumn[c][1]][ScaleColumn[c][2]]]
       @@ [c \in OpenKeys |-> ss[c]]

record(ss, submit_ts) ==
    LET base == [participant_id |-> ss.participant_id,
                 start_ts_utc |-> ss.start_ts,
                 submit_ts_utc |-> isoformat(submit_ts),
                 age |-> ss.age,
                 gender |-> ss.gender,
                 gender_other |-> ss.gender_other,
                 education |-> ss.education,
                 voice_exp |-> ss.voice_exp,
                 used_assistants |-> ss.used_assistants,
                 tech_comfort |-> ss.tech_comfort,
                 single_mood |-> ss.single_mood,
                 gad_impact |-> ss.gad_impact,
                 emp_state_anxiety |-> ss.emp_state_anxiety,
                 neu_state_anxiety |-> ss.neu_state_anxiety]
    IN base
       @@ [c \in DOMAIN ScaleColumn |-> ss[ScaleColumn[c][1]][ScaleColumn[c][2]]]
       @@ [c \in OpenKeys |-> ss[c]]

-----------------------------------------------------------------------------
(* The remote dataset: a CSV file, or no file.  A table is its set of      *)
(* columns and its sequence of rows, a row a function on the columns.      *)

NoFile == [exists |-> FALSE, cols |-> {}, rows |-> <<>>]

\* cell texts pandas.read_csv reads as missing
NaStrings == {"", "NA"}

\* DataFrame.to_csv of one cell: a missing value is written as nothing
to_csv_cell(v) == IF v = None THEN "" ELSE v

\* pandas.read_csv of one cell
read_csv_cell(c) == IF c \in NaStrings THEN None ELSE c

to_csv(df) ==
    [exists |-> TRUE,
     cols |-> df.cols,
     rows |-> [i \in 1..Len(df.rows) |-> [c \in df.cols |-> to_csv_cell(df.rows[i][c])]]]

read_csv(file) ==
    [cols |-> file.cols,
     rows |-> [i \in 1..Len(file.rows) |-> [c \in file.cols |-> read_csv_cell(file.rows[i][c])]]]

\* outcomes of hf_hub_download: the file, no such file, any other failure
DownloadOutcomes(file) == IF file.exists THEN {"ok", "error"} ELSE {"notfound", "error"}

\* outcomes of hf_api.upload_file
UploadOutcomes == {"ok", "error"}

\* load_existing_hf_csv: every exception gives the empty table
load_existing_hf_csv(file, dl) ==
    IF dl = "ok" THEN read_csv(file) ELSE [cols |-> {"participant_id"}, rows |-> <<>>]

\* the snapshot handed on as it was downloaded: the new row is not appended
concat_without_row(df, rec) ==
    LET cols == df.cols \cup DOMAIN rec
        Pad(r) == [c \in cols |-> IF c \in DOMAIN r THEN r[c] ELSE None]
    IN [cols |-> cols, rows |-> [i \in 1..Len(df.rows) |-> Pad(df.rows[i])]]

\* pd.concat([existing_df, pd.DataFrame([rec])], ignore_index=True)
concat(df, rec) ==
    LET cols == df.cols \cup DOMAIN rec
        Pad(r) == [c \in cols |-> IF c \in DOMAIN r THEN r[c] ELSE None]
    IN [cols |-> cols,
        rows |-> [i \in 1..Len(df.rows) |-> Pad(df.rows[i])] \o <<Pad(rec)>>]

\* upload_csv_to_hf: the file is replaced as a whole, or upload_file raises
upload_csv_to_hf(df, file, ul) == IF ul = "ok" THEN to_csv(df) ELSE file

\* the session state of a participant who walked through every step without
\* touching a widget, and the file that participant's Submit created
UntouchedState(pid, t) ==
    LET s0 == init_state(NoKeys, pid, t)
        Visit(ss, s) == StepBlock([ss EXCEPT !.step = s], Rendered(s, NoKeys))
    IN Visit(Visit(Visit(Visit(Visit(s0, "demographics"), "baseline"),
                         "session_emp"), "session_neu"), "open")

PriorFile ==
    to_csv(concat(load_existing_hf_csv(NoFile, "notfound"),
                  record(UntouchedState(OtherParticipant, 0), 0)))

-----------------------------------------------------------------------------
(* The voice provider *)

\* names the provider may list (one of default_voice_metadata)
Voices == {"Rachel"}

\* outcomes of client.voices.get_all(): it raises, or it lists some voices
ListOutcomes ==
    {[ok |-> FALSE, voices |-> {}]} \cup {[ok |-> TRUE, voices |-> V] : V \in SUBSET Voices}

NoList == [ok |-> TRUE, voices |-> {}]

\* the get_all outcomes a run on step s draws from (the call is in the two
\* session blocks only)
ListInputs(s) == IF IsSession(s) THEN ListOutcomes ELSE {NoList}

\* outcomes of client.text_to_speech.convert and of joining its chunks
SynthOutcomes == {"ok", "error"}

\* play_voice without the `if voice_name not in voice_map` test
play_voice_unchecked(voice_name, l, sy) ==
    IF ~l.ok
    THEN [msg |-> {"voice_generation_failed"}, audio |-> FALSE, list_calls |-> 1, synth_calls |-> 0]
    ELSE IF sy # "ok"
    THEN [msg |-> {"voice_generation_failed"}, audio |-> FALSE, list_calls |-> 1, synth_calls |-> 1]
    ELSE [msg |-> {}, audio |-> TRUE, list_calls |-> 1, synth_calls |-> 1]

\* play_voice(text, voice_name): what it shows and the requests it issues.
\* l is the outcome of its own get_all call, sy that of the synthesis.
play_voice(voice_name, l, sy) ==
    IF ~l.ok
    THEN [msg |-> {"voice_generation_failed"}, audio |-> FALSE, list_calls |-> 1, synth_calls |-> 0]
    ELSE IF voice_name \notin l.voices
    THEN [msg |-> {"voice_not_found"}, audio |-> FALSE, list_calls |-> 1, synth_calls |-> 0]
    ELSE IF sy # "ok"
    THEN [msg |-> {"voice_generation_failed"}, audio |-> FALSE, list_calls |-> 1, synth_calls |-> 1]
    ELSE [msg |-> {}, audio |-> TRUE, list_calls |-> 1, synth_calls |-> 1]

-----------------------------------------------------------------------------
(* One execution of the script *)

\* str(uuid.uuid4()) evaluated by init_state in a run after the first
LaterUuid == "p2"

\* get_all raised, or st.selectbox had no option and returned None, which is
\* no key of voice_labels: an exception nothing catches
ListCrashes(l) == ~l.ok \/ l.voices = {}

\* A run in which no button is pressed: init_state, scroll_to_top,
\* show_progress, then the block of the current step.  l is the outcome of
\* the block's get_all call.  A run that an uncaught exception ends creates
\* no widget of the block and drops none.
RunPage(ss, wd, l) ==
    LET s1 == scroll_to_top(init_state(ss, LaterUuid, now))
        crash == IsSession(s1.step) /\ ListCrashes(l)
        shown == Rendered(s1.step, wd)
    IN [ss |-> IF crash THEN s1 ELSE StepBlock(s1, shown),
        widgets |-> IF crash THEN wd ELSE shown,
        crashed |-> crash,
        progress |-> show_progress(s1),
        msg |-> IF crash THEN {"exception"} ELSE {},
        offered |-> IF crash THEN {} ELSE Buttons(s1.step),
        list_calls |-> IF IsSession(s1.step) THEN 1 ELSE 0]

Screen(r) == [progress |-> r.progress, msg |-> r.msg, audio |-> FALSE, offered |-> r.offered]

NoPlay == [called |-> FALSE, listed |-> FALSE, found |-> FALSE, list_calls |-> 0, synth_calls |-> 0]

Event(op) ==
    [op |-> op, consent |-> FALSE, dl |-> "none", ul |-> "none", play |-> NoPlay,
     list_calls |-> 0, download_calls |-> 0, upload_calls |-> 0]

\* the steps first run so far, after a run of the block of step s
Visit(seen, s) == IF s \in Range(seen) THEN seen ELSE Append(seen, s)

\* the run st.rerun() starts from session state ss, after run r1
Rerun(ss, r1, l) == RunPage(ss, r1.widgets, l)

-----------------------------------------------------------------------------
(* The state after the first run of a new session *)

Init ==
    /\ session_state = init_state(NoKeys, ThisParticipant, 0)
    /\ widgets = Rendered("consent", NoKeys)
    /\ remote \in {NoFile, PriorFile}
    /\ now = 0
    /\ crashed = FALSE
    /\ ui = [progress |-> show_progress(session_state), msg |-> {}, audio |-> FALSE,
             offered |-> Buttons("consent")]
    /\ last = Event("start")
    /\ answers = [w \in {} |-> None]
    /\ visited = <<"consent">>
    /\ edits = 0
    /\ sessions = NoSessions

-----------------------------------------------------------------------------
(* The interactions *)

\* the participant changes widget w of the current step to v; the script runs
WidgetChange ==
    /\ ~crashed
    /\ \E w \in DOMAIN widgets \cap Changeable : \E v \in Inputs(w) \ {widgets[w]} :
       \E l \in ListInputs(session_state.step) :
          /\ w \in QuestionWidgets => edits < MaxEdits
          /\ edits' = IF w \in QuestionWidgets THEN edits + 1 ELSE edits
          /\
             LET r == RunPage(session_state, [widgets EXCEPT ![w] = v], l)
             IN /\ session_state' = r.ss
                /\ widgets' = r.widgets
                /\ crashed' = r.crashed
                /\ ui' = Screen(r)
                /\ last' = [Event("change") EXCEPT !.list_calls = r.list_calls]
                /\ answers' = IF w \in QuestionWidgets
                              THEN [x \in DOMAIN answers \cup {w} |->
                                       IF x = w THEN v ELSE answers[x]]
                              ELSE answers
    /\ UNCHANGED <<remote, now, visited, sessions>>

\* "Continue" on the consent step without the `if consent:` test
ConsentContinue_unchecked ==
    /\ ~crashed
    /\ session_state.step = "consent"
    /\ LET r1 == RunPage(session_state, widgets, NoList)
           r2 == Rerun([r1.ss EXCEPT !.consented = TRUE, !.step = "demographics"], r1, NoList)
       IN /\ session_state' = r2.ss
          /\ widgets' = r2.widgets
          /\ ui' = Screen(r2)
          /\ last' = [Event("consent_continue") EXCEPT !.consent = r1.widgets["consent"]]
          /\ visited' = Visit(visited, r2.ss.step)
    /\ UNCHANGED <<remote, now, crashed, answers, edits, sessions>>

\* "Continue" on the consent step
ConsentContinue ==
    /\ ~crashed
    /\ session_state.step = "consent"
    /\ LET r1 == RunPage(session_state, widgets, NoList)
           consent == r1.widgets["consent"]
           r2 == Rerun([r1.ss EXCEPT !.consented = TRUE, !.step = "demographics"], r1, NoList)
       IN IF consent
          THEN /\ session_state' = r2.ss
               /\ widgets' = r2.widgets
               /\ ui' = Screen(r2)
               /\ last' = [Event("consent_continue") EXCEPT !.consent = TRUE]
               /\ visited' = Visit(visited, r2.ss.step)
          ELSE /\ session_state' = r1.ss
               /\ widgets' = r1.widgets
               /\ ui' = [Screen(r1) EXCEPT !.msg = {"must_agree"}]
               /\ last' = Event("consent_continue")
               /\ visited' = visited
    /\ UNCHANGED <<remote, now, crashed, answers, edits, sessions>>

\* a press of the Back or Continue button of navigation_buttons that leads to
\* `target`: the run assigns the block's fields, then navigation_buttons sets
\* the step and st.rerun() runs the script again
Navigate(op, target) ==
    /\ ~crashed
    /\ HasNavigation(session_state.step)
    /\ \E l1 \in ListInputs(session_state.step) : \E l2 \in ListInputs(target) :
          LET r1 == RunPage(session_state, widgets, l1)
              r2 == Rerun(navigation_buttons(r1.ss, target), r1, l2)
              r == IF r1.crashed THEN r1 ELSE r2
          IN /\ session_state' = r.ss
             /\ widgets' = r.widgets
             /\ crashed' = r.crashed
             /\ ui' = Screen(r)
             /\ last' = [Event(op) EXCEPT
                            !.list_calls = r1.list_calls + (IF r1.crashed THEN 0 ELSE r2.list_calls)]
             /\ visited' = Visit(visited, r.ss.step)
    /\ UNCHANGED <<remote, now, answers, edits, sessions>>

Back == Navigate("back", prev_step(session_state.step))

Continue == Navigate("continue", next_step(session_state.step))

\* "Play" on one of the two session steps, with a voice of the select box
Play ==
    /\ ~crashed
    /\ IsSession(session_state.step)
    /\ \E l1 \in ListOutcomes : \E l2 \in ListOutcomes : \E sy \in SynthOutcomes :
       \E voice \in IF ListCrashes(l1) THEN {""} ELSE l1.voices :
          LET r == RunPage(session_state, widgets, l1)
              p == play_voice(voice, l2, sy)
          IN /\ session_state' = r.ss
             /\ widgets' = r.widgets
             /\ crashed' = r.crashed
             /\ IF r.crashed
                THEN /\ ui' = Screen(r)
                     /\ last' = [Event("play") EXCEPT !.list_calls = r.list_calls]
                ELSE /\ ui' = [Screen(r) EXCEPT !.msg = p.msg, !.audio = p.audio]
                     /\ last' = [Event("play") EXCEPT
                                    !.list_calls = r.list_calls + p.list_calls,
                                    !.play = [called |-> TRUE, listed |-> l2.ok,
                                              found |-> voice \in l2.voices,
                                              list_calls |-> p.list_calls,
                                              synth_calls |-> p.synth_calls]]
    /\ UNCHANGED <<remote, now, answers, visited, edits, sessions>>

\* "Submit" if the open step offered it too
Submit_on_open ==
    /\ ~crashed
    /\ session_state.step \in {"open", "review"}
    /\ Len(remote.rows) < MaxRows
    /\ \E t \in now..MaxClock : \E dl \in DownloadOutcomes(remote) : \E ul \in UploadOutcomes :
          LET r == RunPage(session_state, widgets, NoList)
              rec == record(r.ss, t)
              existing_df == load_existing_hf_csv(remote, dl)
              updated_df == concat(existing_df, rec)
          IN /\ session_state' = r.ss
             /\ widgets' = r.widgets
             /\ now' = t
             /\ remote' = upload_csv_to_hf(updated_df, remote, ul)
             /\ ui' = [Screen(r) EXCEPT !.msg = IF ul = "ok" THEN {"submitted"}
                                                ELSE {"upload_failed"}]
             /\ last' = [Event("submit") EXCEPT !.dl = dl, !.ul = ul,
                                                 !.download_calls = 1, !.upload_calls = 1]
    /\ UNCHANGED <<crashed, answers, visited, edits, sessions>>

\* "Submit" if it restarted the session clock
Submit_restamping ==
    /\ ~crashed
    /\ session_state.step = "review"
    /\ Len(remote.rows) < MaxRows
    /\ \E t \in now..MaxClock : \E dl \in DownloadOutcomes(remote) : \E ul \in UploadOutcomes :
          LET r == RunPage(session_state, widgets, NoList)
              rec == record(r.ss, t)
              existing_df == load_existing_hf_csv(remote, dl)
              updated_df == concat(existing_df, rec)
          IN /\ session_state' = [r.ss EXCEPT !.start_ts = isoformat(t)]
             /\ widgets' = r.widgets
             /\ now' = t
             /\ remote' = upload_csv_to_hf(updated_df, remote, ul)
             /\ ui' = [Screen(r) EXCEPT !.msg = IF ul = "ok" THEN {"submitted"}
                                                ELSE {"upload_failed"}]
             /\ last' = [Event("submit") EXCEPT !.dl = dl, !.ul = ul,
                                                 !.download_calls = 1, !.upload_calls = 1]
    /\ UNCHANGED <<crashed, answers, visited, edits, sessions>>

\* "Submit" on the review step
Submit ==
    /\ ~crashed
    /\ session_state.step = "review"
    /\ Len(remote.rows) < MaxRows
    /\ \E t \in now..MaxClock : \E dl \in DownloadOutcomes(remote) : \E ul \in UploadOutcomes :
          LET r == RunPage(session_state, widgets, NoList)
              rec == record(r.ss, t)
              existing_df == load_existing_hf_csv(remote, dl)
              updated_df == concat(existing_df, rec)
          IN /\ session_state' = r.ss
             /\ widgets' = r.widgets
             /\ now' = t
             /\ remote' = upload_csv_to_hf(updated_df, remote, ul)
             /\ ui' = [Screen(r) EXCEPT !.msg = IF ul = "ok" THEN {"submitted"}
                                                ELSE {"upload_failed"}]
             /\ last' = [Event("submit") EXCEPT !.dl = dl, !.ul = ul,
                                                 !.download_calls = 1, !.upload_calls = 1]
    /\ UNCHANGED <<crashed, answers, visited, edits, sessions>>

\* the script is run again with nothing pressed (Streamlit's own "Rerun").
\* After a run that completed, such a run assigns the same widget values
\* again; it is taken where it is the only way on, after an uncaught exception.
Refresh ==
    /\ crashed
    /\ \E l \in ListInputs(session_state.step) :
          LET r == RunPage(session_state, widgets, l)
          IN /\ session_state' = r.ss
             /\ widgets' = r.widgets
             /\ crashed' = r.crashed
             /\ ui' = Screen(r)
             /\ last' = [Event("refresh") EXCEPT !.list_calls = r.list_calls]
    /\ UNCHANGED <<remote, now, answers, visited, edits, sessions>>

Next ==
    \/ WidgetChange
    \/ ConsentContinue
    \/ Back
    \/ Continue
    \/ Play
    \/ Submit
    \/ Refresh

Spec == Init /\ [][Next]_vars

-----------------------------------------------------------------------------
(* Two sessions on the review step.  The script of each runs in its own     *)
(* thread; the Submit branch makes two requests, hf_hub_download and then   *)
(* upload_file, and the other session's requests may arrive in between.     *)

\* str(uuid.uuid4()) of the second session
PeerParticipant == "p3"

RaceParticipants == {ThisParticipant, PeerParticipant}

\* a get_all call that succeeds
OkList == [ok |-> TRUE, voices |-> Voices]

\* Continue pressed on every step up to review, no answer touched
RECURSIVE ContinueToReview(_)
ContinueToReview(ss) ==
    IF ss.step = "review"
    THEN RunPage(ss, NoKeys, NoList).ss
    ELSE CHOOSE r \in {ContinueToReview(x) :
                          x \in {navigation_buttons(RunPage(ss, NoKeys, OkList).ss,
                                                    next_step(ss.step))}} : TRUE

\* the session state of participant pid who consented and went on to review
ReviewState(pid) ==
    CHOOSE r \in {ContinueToReview(x) :
                     x \in {[init_state(NoKeys, pid, 0) EXCEPT !.consented = TRUE,
                                                              !.step = "demographics"]}} : TRUE

NoSnapshot == [cols |-> {}, rows |-> <<>>]

\* "Submit" up to the return of load_existing_hf_csv: the record is built with
\* the clock reading t, then the file is downloaded.  overlap records that the
\* other session holds a snapshot at the same time.
RaceDownload(p) ==
    /\ sessions[p].pc = "review"
    /\ Len(remote.rows) < MaxRows
    /\ \E t \in now..MaxClock : \E dl \in DownloadOutcomes(remote) :
          LET ss == RunPage(sessions[p].ss, NoKeys, NoList).ss
              held == {x \in DOMAIN sessions \ {p} : sessions[x].pc = "downloaded"}
          IN /\ now' = t
             /\ sessions' = [x \in DOMAIN sessions |->
                               IF x = p
                               THEN [ss |-> ss, pc |-> "downloaded",
                                     existing_df |-> load_existing_hf_csv(remote, dl),
                                     rec |-> record(ss, t), msg |-> {},
                                     overlap |-> held # {}]
                               ELSE IF x \in held
                               THEN [sessions[x] EXCEPT !.overlap = TRUE]
                               ELSE sessions[x]]
    /\ UNCHANGED <<session_state, widgets, remote, crashed, ui, last, answers, visited, edits>>

\* the rest of "Submit" if upload_file took the rows of the file at the time
\* of the upload instead of the rows of the snapshot
RaceUpload_rereading(p) ==
    /\ sessions[p].pc = "downloaded"
    /\ \E ul \in UploadOutcomes :
          LET updated_df == concat(read_csv(remote), sessions[p].rec)
          IN /\ remote' = upload_csv_to_hf(updated_df, remote, ul)
             /\ sessions' = [sessions EXCEPT ![p].pc = "review",
                                ![p].msg = IF ul = "ok" THEN {"submitted"}
                                           ELSE {"upload_failed"}]
    /\ UNCHANGED <<session_state, widgets, now, crashed, ui, last, answers, visited, edits>>

\* the rest of "Submit": pd.concat of the snapshot and the record, the upload
\* and the message
RaceUpload(p) ==
    /\ sessions[p].pc = "downloaded"
    /\ \E ul \in UploadOutcomes :
          LET updated_df == concat(sessions[p].existing_df, sessions[p].rec)
          IN /\ remote' = upload_csv_to_hf(updated_df, remote, ul)
             /\ sessions' = [sessions EXCEPT ![p].pc = "review",
                                ![p].msg = IF ul = "ok" THEN {"submitted"}
                                           ELSE {"upload_failed"}]
    /\ UNCHANGED <<session_state, widgets, now, crashed, ui, last, answers, visited, edits>>

\* both sessions have reached review; the variables of the single session
\* followed by Spec are left as a new session has them
RaceInit ==
    /\ session_state = init_state(NoKeys, ThisParticipant, 0)
    /\ widgets = Rendered("consent", NoKeys)
    /\ remote \in {NoFile, PriorFile}
    /\ now = 0
    /\ crashed = FALSE
    /\ ui = [progress |-> show_progress(session_state), msg |-> {}, audio |-> FALSE,
             offered |-> Buttons("consent")]
    /\ last = Event("start")
    /\ answers = [w \in {} |-> None]
    /\ visited = <<"consent">>
    /\ edits = 0
    /\ sessions = [p \in RaceParticipants |->
                     [ss |-> ReviewState(p), pc |-> "review", existing_df |-> NoSnapshot,
                      rec |-> NoKeys, msg |-> {}, overlap |-> FALSE]]

RaceNext ==
    \/ \E p \in RaceParticipants : RaceDownload(p)
    \/ \E p \in RaceParticipants : RaceUpload(p)

SpecRace == RaceInit /\ [][RaceNext]_vars

-----------------------------------------------------------------------------
(* Properties *)

\* C1: whatever the participant pressed, the current step is one of the seven
\* steps and the progress shown is (index of the current step + 1) / 7.
C1_StepAndProgress ==
    /\ session_state.step \in {"consent", "demographics", "baseline", "session_emp",
                               "session_neu", "open", "review"}
    /\ ui.progress = <<StepIndex(session_state.step) + 1, 7>>

\* C1 witness: a Back press has led to the third step, shown as 3/7
C1_Witness ==
    /\ last.op = "back"
    /\ session_state.step = "baseline"
    /\ ui.progress = <<3, 7>>

\* C2 as stated: Continue on the consent step with the box unchecked leaves the
\* step at consent, the consented flag false and every session field as it
\* was, and shows the warning.
C2_Original ==
    [][(last'.op = "consent_continue" /\ ~last'.consent) =>
          /\ session_state'.step = "consent"
          /\ session_state'.consented = FALSE
          /\ session_state' = session_state
          /\ "must_agree" \in ui'.msg]_vars

\* C2 amended: Continue on the consent step leads to demographics only when
\* the box is checked at the press; with the box unchecked the step stays
\* consent, no session field changes (the consented flag keeps its value,
\* which is true after an earlier consent), and the warning is shown.
C2_ConsentGuard ==
    [][last'.op = "consent_continue" =>
          /\ session_state'.step = "demographics" => last'.consent
          /\ ~last'.consent =>
                /\ session_state'.step = "consent"
                /\ session_state' = session_state
                /\ "must_agree" \in ui'.msg]_vars

\* C2 witness: the press was refused in a session that had consented before
C2_Witness ==
    /\ last.op = "consent_continue"
    /\ ~last.consent
    /\ session_state.step = "consent"
    /\ session_state.consented
    /\ "must_agree" \in ui.msg

\* the row DataFrame.to_csv writes for record rec
CsvRow(rec) == [c \in DOMAIN rec |-> to_csv_cell(rec[c])]

Submitted == last.op = "submit" /\ "submitted" \in ui.msg

\* C3: every Submit that reports success leaves the rows the remote dataset
\* held before it in place and unchanged and adds exactly one row, whatever
\* the download step did.
C3_AppendOnly ==
    [][(last'.op = "submit" /\ "submitted" \in ui'.msg) =>
          /\ Len(remote'.rows) = Len(remote.rows) + 1
          /\ \A i \in 1..Len(remote.rows) : remote'.rows[i] = remote.rows[i]]_vars

\* C4 as stated: when the dataset file does not exist at the press of Submit,
\* Submit reports success and the file then holds exactly one row, the
\* submitted record.
C4_Original ==
    [][(last'.op = "submit" /\ ~remote.exists) =>
          /\ ui'.msg = {"submitted"}
          /\ remote'.exists
          /\ remote'.rows = <<CsvRow(record(session_state', now'))>>]_vars

\* C4 amended: when the dataset file does not exist at the press of Submit, the
\* failed download is not reported, the snapshot is the empty table and the
\* upload is attempted once; if the upload succeeds Submit reports success and
\* the file then holds exactly one row, the submitted record; if the upload
\* fails the upload error is shown and there is still no file.
C4_FirstSubmission ==
    [][(last'.op = "submit" /\ ~remote.exists) =>
          /\ last'.dl \in {"notfound", "error"}
          /\ last'.upload_calls = 1
          /\ last'.ul = "ok" =>
                /\ ui'.msg = {"submitted"}
                /\ remote'.exists
                /\ remote'.rows = <<CsvRow(record(session_state', now'))>>
          /\ last'.ul # "ok" =>
                /\ ui'.msg = {"upload_failed"}
                /\ remote' = remote]_vars

\* C4 witness: the first submission to a missing file has succeeded
C4_Witness ==
    /\ Submitted
    /\ last.dl = "notfound"
    /\ Len(remote.rows) = 1
    /\ remote.rows[1]["participant_id"] = session_state.participant_id

\* the record column meant to hold the answer given through widget w
ColumnOf(w) ==
    IF \E i \in 1..8 : empathetic_questions[i] = w
    THEN "emp_q" \o ToString(CHOOSE i \in 1..8 : empathetic_questions[i] = w)
    ELSE IF \E i \in 1..8 : neutral_questions[i] = w
    THEN "neu_q" \o ToString(CHOOSE i \in 1..8 : neutral_questions[i] = w)
    ELSE w

LastRow == remote.rows[Len(remote.rows)]

\* C5: after a Submit that reports success, every field of the appended row
\* holds the value the participant last set for that question (demographics,
\* baseline items, the ratings of the two voice sessions in emp_q1..emp_q8 and
\* neu_q1..neu_q8, the open texts), with a participant identifier and two
\* timestamps that are not null.
C5_RowHoldsAnswers ==
    Submitted =>
        /\ \A w \in DOMAIN answers : LastRow[ColumnOf(w)] = to_csv_cell(answers[w])
        /\ \A c \in {"participant_id", "start_ts_utc", "submit_ts_utc"} : LastRow[c] \notin NaStrings

\* the columns the specification documents for the record
DocumentedColumns ==
    {"participant_id", "start_ts_utc", "submit_ts_utc"}
    \cup {"age", "gender", "gender_other", "education", "voice_exp", "used_assistants",
          "tech_comfort"}
    \cup {"gad_impact"}
    \cup Keys("panas_q", 10)
    \cup {"single_mood"}
    \cup Keys("emp_q", 8) \cup {"emp_state_anxiety"} \cup Keys("emp_post_q", 7)
    \cup Keys("neu_q", 8) \cup {"neu_state_anxiety"} \cup Keys("neu_post_q", 7)
    \cup OpenKeys

\* the scale columns fed by the dict of a step no run has entered yet, and
\* those fed by a dict no step assigns
UnwrittenScaleColumns ==
    (IF "baseline" \in Range(visited) THEN {} ELSE Keys("gad_q", 7) \cup Keys("panas_q", 10))
    \cup Keys("emp_q", 8) \cup Keys("emp_post_q", 7)
    \cup Keys("neu_q", 8) \cup Keys("neu_post_q", 7)

\* C6 as stated: the record a Submit builds has exactly the documented columns
\* (identifier, two timestamps, demographics, the impact rating, ten affect
\* items, the mood score, 8 + 1 + 7 empathetic, 8 + 1 + 7 neutral, ten texts)
\* and nothing else.
C6_Original ==
    last.op = "submit" => DOMAIN record(session_state, now) = DocumentedColumns

\* C6 amended: the record built from any session state, and so the one a
\* Submit builds, has exactly the documented columns plus the seven
\* anxiety-scale items gad_q1..gad_q7 (71 columns), and every scale item never
\* written is present with a null value.
C6_ColumnSet ==
    LET rec == record(session_state, now)
    IN /\ DOMAIN rec = DocumentedColumns \cup Keys("gad_q", 7)
       /\ Cardinality(DOMAIN rec) = 71
       /\ \A c \in UnwrittenScaleColumns : rec[c] = None
       /\ Submitted => DOMAIN LastRow = DOMAIN rec

\* C6 witness: a record has been built and uploaded; its anxiety-scale items
\* are there and the items no step writes are empty cells
C6_Witness ==
    /\ Submitted
    /\ LastRow["gad_q7"] = "1"
    /\ LastRow["emp_post_q7"] = ""
    /\ LastRow["neu_q1"] = ""

\* C7: no failure of an external call leaves the session unusable: in every
\* state the form of the current step has been rendered and its buttons (Back
\* and Continue on the five middle steps) are offered.
C7_NavigationSurvives ==
    /\ ~crashed
    /\ Buttons(session_state.step) \subseteq ui.offered

\* C8: Play with a voice name that the list play_voice fetches does not hold
\* shows the voice-not-found error, issues no synthesis request, renders no
\* audio and raises nothing: the rest of the page is rendered.
C8_VoiceNotFound ==
    (last.op = "play" /\ last.play.called /\ last.play.listed /\ ~last.play.found) =>
        /\ ui.msg = {"voice_not_found"}
        /\ last.play.synth_calls = 0
        /\ ~ui.audio
        /\ ~crashed
        /\ ui.offered = Buttons(session_state.step)

\* C8 witness: the voice chosen from the page's list was gone from the list
\* play_voice fetched
C8_Witness ==
    /\ last.op = "play"
    /\ last.play.called
    /\ last.play.listed
    /\ ~last.play.found
    /\ "voice_not_found" \in ui.msg

\* C9: when the download, the append or the upload of a Submit fails, the
\* error is shown, the step stays review, the session state and the remote
\* dataset are unchanged, Submit is still offered and nothing is retried.
C9_FailedSubmit ==
    [][(last'.op = "submit" /\ (last'.dl = "error" \/ last'.ul = "error")) =>
          /\ ui'.msg = {"upload_failed"}
          /\ session_state'.step = "review"
          /\ session_state' = session_state
          /\ remote' = remote
          /\ "Submit" \in ui'.offered
          /\ last'.download_calls <= 1
          /\ last'.upload_calls <= 1]_vars

\* C10: within one session the remote dataset gains at most one row carrying
\* the session's participant identifier.
C10_OneRowPerParticipant ==
    Cardinality({i \in 1..Len(remote.rows) :
                    remote.rows[i]["participant_id"] = session_state.participant_id}) <= 1

\* the two sessions held the same snapshot at the same time (both downloads
\* came before either upload) and both have reported success
Raced(p, q) ==
    /\ p # q
    /\ sessions[p].pc = "review" /\ sessions[q].pc = "review"
    /\ sessions[p].msg = {"submitted"} /\ sessions[q].msg = {"submitted"}
    /\ sessions[p].overlap /\ sessions[q].overlap
    /\ sessions[p].existing_df = sessions[q].existing_df

\* C11: when two sessions both download the same snapshot before either
\* uploads and both report success, the file is the snapshot plus the record
\* of one of them only: each upload replaced the file by its own snapshot plus
\* its own row, and the row of the session that uploaded first is lost.
C11_LostUpdate ==
    \A p, q \in RaceParticipants :
        Raced(p, q) =>
            /\ Len(remote.rows) = Len(sessions[p].existing_df.rows) + 1
            /\ remote \in {to_csv(concat(sessions[x].existing_df, sessions[x].rec)) : x \in {p, q}}

\* C11 witness: both sessions reported success on the same snapshot and the
\* file holds the row of the second session but no row of the first
C11_Witness ==
    /\ Raced(ThisParticipant, PeerParticipant)
    /\ LastRow["participant_id"] = PeerParticipant
    /\ \A i \in 1..Len(remote.rows) : remote.rows[i]["participant_id"] # ThisParticipant

\* C12: the dataset is downloaded and uploaded only by an interaction made
\* while the step is review, and play_voice (with its synthesis request) is
\* called only by an interaction made while the step is session_emp or
\* session_neu; either interaction leaves the step where it is.
C12_CallsByStep ==
    [][/\ (last'.op = "submit" \/ last'.download_calls > 0 \/ last'.upload_calls > 0) =>
             /\ session_state.step = "review"
             /\ session_state'.step = "review"
       /\ (last'.play.called \/ last'.play.synth_calls > 0) =>
             /\ IsSession(session_state.step)
             /\ session_state'.step = session_state.step]_vars

\* C12 witness: a Submit on review has issued its download and its upload
C12_Witness ==
    /\ last.op = "submit"
    /\ last.download_calls = 1
    /\ last.upload_calls = 1
    /\ session_state.step = "review"

\* C13: the participant identifier and the start timestamp are those the first
\* run of the session set, in every state, and the row of every Submit that
\* reports success carries them.
C13_IdentityStable ==
    /\ session_state.participant_id = ThisParticipant
    /\ session_state.start_ts = isoformat(0)
    /\ Submitted =>
          /\ LastRow["participant_id"] = to_csv_cell(ThisParticipant)
          /\ LastRow["start_ts_utc"] = to_csv_cell(isoformat(0))

\* C13 witness: a row was uploaded after the clock had moved on; it carries
\* the identifier and the start time of the first run
C13_Witness ==
    /\ Submitted
    /\ now > 0
    /\ Len(remote.rows) = 2
    /\ remote.rows[1]["participant_id"] = OtherParticipant
    /\ LastRow["participant_id"] = ThisParticipant
    /\ LastRow["start_ts_utc"] = isoformat(0)
    /\ LastRow["submit_ts_utc"] = isoformat(1)

\* C14: the steps are first visited in the order of the list, and whenever
\* the step is review (where alone Submit is offered) all seven steps have
\* been visited, in the order consent, demographics, baseline, session_emp,
\* session_neu, open, review.
C14_VisitedInOrder ==
    /\ visited = SubSeq(steps, 1, Len(visited))
    /\ session_state.step \in Range(visited)
    /\ session_state.step = "review" => visited = steps
    /\ "Submit" \in ui.offered => session_state.step = "review"

\* C14 witness: review has been reached with an answer given on the way
C14_Witness ==
    /\ session_state.step = "review"
    /\ "Submit" \in ui.offered
    /\ visited = steps
    /\ session_state.consented
    /\ session_state.age = "29"

\* the dicts of scale items and the text fields of the session state
ScaleFields == {"gad", "panas", "emp", "emp_post", "neu", "neu_post"}

TextFields == {"gender_other"} \cup OpenKeys

\* the answer fields that belong to step s
FieldsOf(s) ==
    CASE s = "demographics" -> {"age", "gender", "gender_other", "education", "voice_exp",
                                "used_assistants", "tech_comfort"}
      [] s = "baseline" -> {"gad", "gad_impact", "panas", "single_mood"}
      [] s = "session_emp" -> {"emp", "emp_state_anxiety", "emp_post"}
      [] s = "session_neu" -> {"neu", "neu_state_anxiety", "neu_post"}
      [] s = "open" -> OpenKeys
      [] OTHER -> {}

\* field f holds what init_state gave it: None for a scalar and for every
\* item of a scale, "" for a text
HoldsDefault(f) ==
    IF f \in ScaleFields THEN \A q \in DOMAIN session_state[f] : session_state[f][q] = None
    ELSE IF f \in TextFields THEN session_state[f] = ""
    ELSE session_state[f] = None

\* C15: in every state each answer field of a step not visited yet holds its
\* initial default (None, or "" for a text), and an interaction changes a
\* field of a step only if that step is the current one in a script run of
\* the interaction (the step at the press, or the step the press leads to).
C15_FieldsByStep ==
    /\ [](\A s \in Range(steps) \ Range(visited) : \A f \in FieldsOf(s) : HoldsDefault(f))
    /\ [][\A s \in Range(steps) : \A f \in FieldsOf(s) :
             session_state'[f] # session_state[f] =>
                 s \in {session_state.step, session_state'.step}]_vars

\* C15 witness: on baseline, with an answer given on demographics, the fields
\* of the three later steps still hold their defaults
C15_Witness ==
    /\ session_state.step = "baseline"
    /\ visited = <<"consent", "demographics", "baseline">>
    /\ session_state.age = "29"
    /\ session_state.gad_impact # None
    /\ session_state.emp_state_anxiety = None
    /\ session_state.neu_state_anxiety = None
    /\ session_state.open_emp = ""

\* C16: on demographics, baseline, session_emp, session_neu and open the Back
\* and Continue buttons are offered in every state, whatever the answer
\* fields hold.
C16_AlwaysEnabled ==
    HasNavigation(session_state.step) =>
        {"back_" \o prev_step(session_state.step),
         "next_" \o next_step(session_state.step)} \subseteq ui.offered

\* C17: one press of Play issues at most one list-voices request and at most
\* one synthesis request; when no audio is rendered the failure has been
\* caught and is shown, the page is rendered, and the step and every field of
\* the session state are as before the press.
C17_PlayRequests ==
    [][last'.op = "play" =>
          /\ last'.list_calls <= 1
          /\ last'.play.synth_calls <= 1
          /\ ~ui'.audio =>
                /\ ui'.msg \in {{"voice_generation_failed"}, {"voice_not_found"}}
                /\ ~crashed'
          /\ session_state' = session_state]_vars

\* C18: a Submit changes no field of the session state, and the record built
\* by a Submit that directly follows another Submit has the same columns and,
\* in every column but submit_ts_utc, the same value as the record before.
C18_FlattenIdempotent ==
    [][last'.op = "submit" =>
          /\ session_state' = session_state
          /\ last.op = "submit" =>
                LET first == record(session_state, now)
                    second == record(session_state', now')
                IN [second EXCEPT !["submit_ts_utc"] = first["submit_ts_utc"]] = first]_vars

\* C18 witness: two rows of this session, uploaded by two Submits at two clock
\* readings, equal but for the submission timestamp
C18_Witness ==
    /\ last.op = "submit"
    /\ Len(remote.rows) = 2
    /\ remote.rows[1]["participant_id"] = ThisParticipant
    /\ remote.rows[2]["participant_id"] = ThisParticipant
    /\ remote.rows[1]["submit_ts_utc"] # remote.rows[2]["submit_ts_utc"]
    /\ \A c \in remote.cols \ {"submit_ts_utc"} : remote.rows[1][c] = remote.rows[2][c]

\* the clock reading that datetime.isoformat() wrote as s
ClockOf(s) == CHOOSE t \in 0..MaxClock : isoformat(t) = s

\* C19: the clock never going backwards, the record every Submit builds and
\* every row of the dataset have a submission timestamp that is not earlier
\* than the session-start timestamp.
C19_SubmitAfterStart ==
    /\ last.op = "submit" =>
          ClockOf(record(session_state, now)["submit_ts_utc"])
             >= ClockOf(record(session_state, now)["start_ts_utc"])
    /\ \A i \in 1..Len(remote.rows) :
          ClockOf(remote.rows[i]["submit_ts_utc"]) >= ClockOf(remote.rows[i]["start_ts_utc"])

\* C19 witness: a row whose submission time is later than its start time
C19_Witness ==
    /\ Submitted
    /\ ClockOf(LastRow["start_ts_utc"]) = 0
    /\ ClockOf(LastRow["submit_ts_utc"]) = 1

\* C20: every interaction leaves the step where it is or moves it to a
\* neighbour in the list: by +1 only on Continue, by -1 only on Back, and a
\* Back or Continue press whose script runs complete moves it by exactly one.
C20_AdjacentSteps ==
    [][LET d == StepIndex(session_state'.step) - StepIndex(session_state.step)
       IN /\ d \in {-1, 0, 1}
          /\ d = 1 => last'.op \in {"continue", "consent_continue"}
          /\ d = -1 => last'.op = "back"
          /\ (last'.op = "continue" /\ ~crashed') => d = 1
          /\ (last'.op = "back" /\ ~crashed') => d = -1]_vars

\* C20 witness: a Back press has led from session_neu to session_emp
C20_Witness ==
    /\ last.op = "back"
    /\ session_state.step = "session_emp"
    /\ ~crashed
    /\ visited = SubSeq(steps, 1, 5)

\* C21: review is absorbing.  While the step is review the page is rendered
\* and offers Submit and nothing else (no Back, no Continue), and every
\* interaction made there, a Submit that succeeds or fails included, leaves
\* the step at review and every field of the session state as it was.
C21_ReviewAbsorbing ==
    /\ [](session_state.step = "review" => (~crashed /\ ui.offered = {"Submit"}))
    /\ [][session_state.step = "review" =>
             /\ session_state'.step = "review"
             /\ session_state' = session_state]_vars

\* C21 witness: a Submit has failed and one has succeeded on review; the step
\* is still review and only Submit is offered
C21_Witness ==
    /\ session_state.step = "review"
    /\ last.op = "submit"
    /\ last.ul = "error"
    /\ "upload_failed" \in ui.msg
    /\ ui.offered = {"Submit"}
    /\ \E i \in 1..Len(remote.rows) : remote.rows[i]["participant_id"] = ThisParticipant

\* C22: in every state where the step is not consent the consented flag is
\* true; the flag is true exactly when demographics has been entered, so it
\* is set together with the first move there and stays true afterwards, after
\* Back to the consent step too.
C22_ConsentedFlag ==
    /\ session_state.step # "consent" => session_state.consented
    /\ session_state.consented <=> "demographics" \in Range(visited)

\* C22 witness: Back has led to the consent step again; the box is unchecked
\* and the flag is still true
C22_Witness ==
    /\ last.op = "back"
    /\ session_state.step = "consent"
    /\ widgets["consent"] = FALSE
    /\ session_state.consented

\* C23: a Back or Continue press handled by navigation_buttons writes the step
\* and the step_changed flag and nothing else: from the session state its
\* script run has reached, every answer field, the consented flag, the
\* participant identifier and the start timestamp come out as they were, the
\* step is the target and the flag is true; scroll_to_top of the next run
\* clears the flag, so that no state left by a script run has it set.
C23_NavigationFrame ==
    /\ ~StepChanged(session_state)
    /\ (HasNavigation(session_state.step) /\ ~crashed) =>
          \A target \in {prev_step(session_state.step), next_step(session_state.step)} :
          \A r1 \in {RunPage(session_state, widgets, OkList)} :
          \A pressed \in {navigation_buttons(r1.ss, target)} :
             /\ r1.ss = session_state
             /\ DOMAIN pressed = DOMAIN r1.ss \cup {"step_changed"}
             /\ \A k \in DOMAIN r1.ss \ {"step", "step_changed"} : pressed[k] = r1.ss[k]
             /\ pressed.step = target
             /\ pressed.step_changed
             /\ \A next_run \in {scroll_to_top(init_state(pressed, LaterUuid, now))} :
                   /\ next_run.step_changed = FALSE
                   /\ \A k \in DOMAIN pressed \ {"step_changed"} : next_run[k] = pressed[k]

\* C23 witness: a Back press has been handled; the flag it created is in the
\* session state and is false again, and the answers given before are there
C23_Witness ==
    /\ last.op = "back"
    /\ ~crashed
    /\ session_state.step = "baseline"
    /\ "step_changed" \in DOMAIN session_state
    /\ session_state.step_changed = FALSE
    /\ session_state.consented
    /\ session_state.age = "29"
    /\ session_state.participant_id = ThisParticipant

====
